---------------------------- MODULE Spec2Model ----------------------------
(***************************************************************************)
(* A model of cannolib's runtime value (src/src/value.rs): the tagged      *)
(* union Value, its truthiness, equality, ordering, arithmetic and bitwise *)
(* dispatch, and the call / attribute protocol of Class and Object.        *)
(*                                                                         *)
(* A Value is a record with a tag.  Payloads that the source keeps behind  *)
(* Rc<RefCell<..>> (List, Object) are addresses into the heaps `lists` and *)
(* `tbls`; a Class's HashMap is kept at an address of `tbls` that only the *)
(* Class owns.  Every operation ends in a result record: a returned bool,  *)
(* a returned Value, or a fatal error (panic!, unimplemented!,             *)
(* unreachable!).                                                          *)
(***************************************************************************)
EXTENDS Integers, Sequences, FiniteSets, TLC

VARIABLES
    env,      \* the bindings of the generated program: name -> Value
    lists,    \* the heap of List cells: address -> sequence of Values
    tbls,     \* the heap of attribute tables: address -> (name -> Value)
    classes,  \* history: each Class's address and its member table when created
    aliasOf,  \* history: pairs of bindings of which one was duplicated from the other
    opnd,     \* the operands an operator is applied to
    snaps,    \* the sequences clone_seq returned that the program still holds
    last      \* the latest operation: its name, operands and result

vars == <<env, lists, tbls, classes, aliasOf, opnd, snaps, last>>

---------------------------------------------------------------------------
(* Bounds of the model.                                                    *)

MaxInt == 2
MaxStrLen == 2
MaxLen == 2
MaxObjs == 2

(* NumericType::Integer holds an i32: two half-words of 16 bits.           *)
HalfWord == 65536

---------------------------------------------------------------------------
(* Results of an operation.                                                *)

Fatal(m) == [ok |-> FALSE, err |-> m]
FatalAttr(m, attr) == [ok |-> FALSE, err |-> m, attr |-> attr]
RetBool(b) == [ok |-> TRUE, b |-> b]
RetVal(v) == [ok |-> TRUE, v |-> v]

IsFatal(r) == ~r.ok
IsBool(r) == r.ok /\ "b" \in DOMAIN r
IsVal(r) == r.ok /\ "v" \in DOMAIN r

Unimplemented == "not yet implemented"
Unreachable == "internal error: entered unreachable code"

---------------------------------------------------------------------------
(* The ten variants of Value.                                              *)

Tags == {"Number", "Str", "Bool", "List", "Tuple", "Function", "Class",
         "Object", "TextIOWrapper", "None"}

Integer(n) == [kind |-> "Integer", n |-> n]
Float(h) == [kind |-> "Float", h |-> h]        \* the float h / 2
Number(num) == [tag |-> "Number", num |-> num]
Str(s) == [tag |-> "Str", s |-> s]             \* a sequence of bytes
Bool(b) == [tag |-> "Bool", b |-> b]
List(ref) == [tag |-> "List", ref |-> ref]
Tuple(elems) == [tag |-> "Tuple", elems |-> elems]
Function(f) == [tag |-> "Function", f |-> f]
Class(tbl) == [tag |-> "Class", tbl |-> tbl]
Object(tbl) == [tag |-> "Object", tbl |-> tbl]
TextIOWrapper == [tag |-> "TextIOWrapper"]
None == [tag |-> "None"]

---------------------------------------------------------------------------
(* i32 arithmetic of the host, as `val as i32`, unary - and ! compute it.  *)

\* !n on an i32, half-word by half-word: every bit flipped, the top bit the sign.
BitNot32(n) ==
    LET lo == n % HalfWord
        hi == ((n - lo) \div HalfWord) % HalfWord
        notLo == (HalfWord - 1) - lo
        notHi == (HalfWord - 1) - hi
        signedHi == IF notHi >= HalfWord \div 2 THEN notHi - HalfWord ELSE notHi
    IN  signedHi * HalfWord + notLo
BoolAsI32(b) == IF b THEN 1 ELSE 0

---------------------------------------------------------------------------
(* The numeric tower (super::NumericType), an external collaborator.       *)

\* Twice the numeric value: Integer n is n, Float h is h / 2.
Twice(num) == IF num.kind = "Integer" THEN 2 * num.n ELSE num.h

TowerToBool(num) == Twice(num) # 0
TowerEq(x, y) == Twice(x) = Twice(y)
TowerLt(x, y) == Twice(x) < Twice(y)
TowerNeg(num) ==
    IF num.kind = "Integer" THEN Integer(-num.n) ELSE Float(-num.h)
\* The complement of an integer; of a float, the tower's own answer, kept as a term.
TowerNot(num) ==
    IF num.kind = "Integer" THEN Integer(BitNot32(num.n))
    ELSE [kind |-> "Tower", op |-> "not", lhs |-> num, rhs |-> num]
\* The tower's answer to a binary operator, kept as the term it is applied to.
TowerBin(op, x, y) == [kind |-> "Tower", op |-> op, lhs |-> x, rhs |-> y]

---------------------------------------------------------------------------
(* Strings: byte sequences, compared as Rust compares String.              *)

RECURSIVE StrLt(_, _)
StrLt(s, t) ==
    IF t = <<>> THEN FALSE
    ELSE IF s = <<>> THEN TRUE
    ELSE IF Head(s) # Head(t) THEN Head(s) < Head(t)
    ELSE StrLt(Tail(s), Tail(t))

BoolLt(x, y) == BoolAsI32(x) < BoolAsI32(y)

---------------------------------------------------------------------------
(* Value::to_bool and Value::logical_not.                                  *)

\* ListType::to_bool and TupleType::to_bool: non-empty.
SeqToBool(seq) == Len(seq) > 0

\* to_bool answering for the contents a List had when the program started.
ToBoolStale(v) ==
    CASE v.tag = "Number" -> RetBool(TowerToBool(v.num))
      [] v.tag = "Str" -> RetBool(v.s # <<>>)
      [] v.tag = "Bool" -> RetBool(v.b)
      [] v.tag = "List" -> RetBool(v.ref \in {2, 3})
      [] v.tag = "Tuple" -> RetBool(SeqToBool(v.elems))
      [] v.tag = "Function" -> RetBool(TRUE)
      [] v.tag = "Class" -> RetBool(TRUE)
      [] v.tag = "Object" -> RetBool(TRUE)
      [] v.tag = "None" -> RetBool(FALSE)
      [] OTHER -> Fatal(Unimplemented)

ToBool(v) ==
    CASE v.tag = "Number" -> RetBool(TowerToBool(v.num))
      [] v.tag = "Str" -> RetBool(v.s # <<>>)
      [] v.tag = "Bool" -> RetBool(v.b)
      [] v.tag = "List" -> RetBool(SeqToBool(lists[v.ref]))
      [] v.tag = "Tuple" -> RetBool(SeqToBool(v.elems))
      [] v.tag = "Function" -> RetBool(TRUE)
      [] v.tag = "Class" -> RetBool(TRUE)
      [] v.tag = "Object" -> RetBool(TRUE)
      [] v.tag = "None" -> RetBool(FALSE)
      [] OTHER -> Fatal(Unimplemented)

LogicalNot(v) ==
    LET r == ToBool(v) IN IF IsFatal(r) THEN r ELSE RetVal(Bool(~r.b))

---------------------------------------------------------------------------
(* impl PartialEq for Value: eq and ne.                                    *)

RECURSIVE ValueEq(_, _)
RECURSIVE SeqEq(_, _)

\* The containers' structural equality: same length, then element by element.
SeqEq(s, t) ==
    IF Len(s) # Len(t) THEN RetBool(FALSE)
    ELSE IF s = <<>> THEN RetBool(TRUE)
    ELSE LET r == ValueEq(Head(s), Head(t)) IN
         IF IsFatal(r) \/ ~r.b THEN r ELSE SeqEq(Tail(s), Tail(t))

\* ValueEq without its `(&Value::Number(_), _) => false` arm.
ValueEqNoNumberArm(a, b) ==
    CASE a.tag = "Number" /\ b.tag = "Number" -> RetBool(TowerEq(a.num, b.num))
      [] a.tag = "Str" ->
            IF b.tag = "Str" THEN RetBool(a.s = b.s) ELSE RetBool(FALSE)
      [] a.tag = "Bool" ->
            IF b.tag = "Bool" THEN RetBool(a.b = b.b) ELSE RetBool(FALSE)
      [] a.tag = "List" ->
            IF b.tag = "List" THEN SeqEq(lists[a.ref], lists[b.ref]) ELSE RetBool(FALSE)
      [] a.tag = "Tuple" ->
            IF b.tag = "Tuple" THEN SeqEq(a.elems, b.elems) ELSE RetBool(FALSE)
      [] a.tag = "None" ->
            IF b.tag = "None" THEN RetBool(TRUE) ELSE RetBool(FALSE)
      [] OTHER -> Fatal(Unimplemented)

ValueEq(a, b) ==
    CASE a.tag = "Number" ->
            IF b.tag = "Number" THEN RetBool(TowerEq(a.num, b.num)) ELSE RetBool(FALSE)
      [] a.tag = "Str" ->
            IF b.tag = "Str" THEN RetBool(a.s = b.s) ELSE RetBool(FALSE)
      [] a.tag = "Bool" ->
            IF b.tag = "Bool" THEN RetBool(a.b = b.b) ELSE RetBool(FALSE)
      [] a.tag = "List" ->
            IF b.tag = "List" THEN SeqEq(lists[a.ref], lists[b.ref]) ELSE RetBool(FALSE)
      [] a.tag = "Tuple" ->
            IF b.tag = "Tuple" THEN SeqEq(a.elems, b.elems) ELSE RetBool(FALSE)
      [] a.tag = "None" ->
            IF b.tag = "None" THEN RetBool(TRUE) ELSE RetBool(FALSE)
      [] OTHER -> Fatal(Unimplemented)

SeqNe(s, t) ==
    LET r == SeqEq(s, t) IN IF IsFatal(r) THEN r ELSE RetBool(~r.b)

ValueNe(a, b) ==
    CASE a.tag = "Number" ->
            IF b.tag = "Number" THEN RetBool(~TowerEq(a.num, b.num)) ELSE RetBool(TRUE)
      [] a.tag = "Str" ->
            IF b.tag = "Str" THEN RetBool(a.s # b.s) ELSE RetBool(TRUE)
      [] a.tag = "Bool" ->
            IF b.tag = "Bool" THEN RetBool(a.b # b.b) ELSE RetBool(TRUE)
      [] a.tag = "List" ->
            IF b.tag = "List" THEN SeqNe(lists[a.ref], lists[b.ref]) ELSE RetBool(TRUE)
      [] a.tag = "Tuple" ->
            IF b.tag = "Tuple" THEN SeqNe(a.elems, b.elems) ELSE RetBool(TRUE)
      [] a.tag = "None" ->
            IF b.tag = "None" THEN RetBool(FALSE) ELSE RetBool(TRUE)
      [] OTHER -> Fatal(Unimplemented)

---------------------------------------------------------------------------
(* impl PartialOrd for Value: lt, le, gt, ge.                              *)

\* ValueLt left to partial_cmp's default, answering false where no order exists.
ValueLtUnordered(a, b) ==
    CASE a.tag = "Number" /\ b.tag = "Number" -> RetBool(TowerLt(a.num, b.num))
      [] a.tag = "Str" /\ b.tag = "Str" -> RetBool(StrLt(a.s, b.s))
      [] a.tag = "Bool" /\ b.tag = "Bool" -> RetBool(BoolLt(a.b, b.b))
      [] OTHER -> RetBool(FALSE)

ValueLt(a, b) ==
    CASE a.tag = "Number" /\ b.tag = "Number" -> RetBool(TowerLt(a.num, b.num))
      [] a.tag = "Str" /\ b.tag = "Str" -> RetBool(StrLt(a.s, b.s))
      [] a.tag = "Bool" /\ b.tag = "Bool" -> RetBool(BoolLt(a.b, b.b))
      [] OTHER -> Fatal("operation '<' not supported between these values")

ValueLe(a, b) ==
    CASE a.tag = "Number" /\ b.tag = "Number" -> RetBool(~TowerLt(b.num, a.num))
      [] a.tag = "Str" /\ b.tag = "Str" -> RetBool(~StrLt(b.s, a.s))
      [] a.tag = "Bool" /\ b.tag = "Bool" -> RetBool(~BoolLt(b.b, a.b))
      [] OTHER -> Fatal("operation '<=' not supported between these values")

ValueGt(a, b) ==
    CASE a.tag = "Number" /\ b.tag = "Number" -> RetBool(TowerLt(b.num, a.num))
      [] a.tag = "Str" /\ b.tag = "Str" -> RetBool(StrLt(b.s, a.s))
      [] a.tag = "Bool" /\ b.tag = "Bool" -> RetBool(BoolLt(b.b, a.b))
      [] OTHER -> Fatal("operation '>' not supported between these values")

ValueGe(a, b) ==
    CASE a.tag = "Number" /\ b.tag = "Number" -> RetBool(~TowerLt(a.num, b.num))
      [] a.tag = "Str" /\ b.tag = "Str" -> RetBool(~StrLt(a.s, b.s))
      [] a.tag = "Bool" /\ b.tag = "Bool" -> RetBool(~BoolLt(a.b, b.b))
      [] OTHER -> Fatal("operation '>=' not supported between these values")

---------------------------------------------------------------------------
(* The binary operators: impl ops::{Add, Sub, Mul, Div, Rem, BitAnd,       *)
(* BitOr, BitXor, Shl, Shr} for Value, and Value::pow.                     *)

\* The arm every binary operator has: Number with Number goes to the tower.
NumberArm(op, a, b, msg) ==
    IF a.tag = "Number" /\ b.tag = "Number"
    THEN RetVal(Number(TowerBin(op, a.num, b.num)))
    ELSE Fatal(msg)

\* ValueAdd concatenating right then left.
ValueAddSwapped(a, b) ==
    CASE a.tag = "Number" /\ b.tag = "Number" ->
            RetVal(Number(TowerBin("add", a.num, b.num)))
      [] a.tag = "Str" /\ b.tag = "Str" -> RetVal(Str(b.s \o a.s))
      [] OTHER -> Fatal(Unimplemented)

ValueAdd(a, b) ==
    CASE a.tag = "Number" /\ b.tag = "Number" ->
            RetVal(Number(TowerBin("add", a.num, b.num)))
      [] a.tag = "Str" /\ b.tag = "Str" -> RetVal(Str(a.s \o b.s))
      [] OTHER -> Fatal(Unimplemented)

ValueSub(a, b) == NumberArm("sub", a, b, Unimplemented)
ValueMul(a, b) == NumberArm("mul", a, b, Unimplemented)
ValueDiv(a, b) == NumberArm("div", a, b, Unimplemented)
ValueRem(a, b) == NumberArm("rem", a, b, Unimplemented)
ValuePow(a, b) == NumberArm("pow", a, b, "pow() unsupported for specified values")
ValueBitAnd(a, b) == NumberArm("bitand", a, b, "Bitwise AND applies to Value::Number")
ValueBitOr(a, b) == NumberArm("bitor", a, b, "Bitwise OR applies to Value::Number")
ValueBitXor(a, b) == NumberArm("bitxor", a, b, "Bitwise XOR applies to Value::Number")
ValueShl(a, b) == NumberArm("shl", a, b, Unimplemented)
ValueShr(a, b) == NumberArm("shr", a, b, Unimplemented)

---------------------------------------------------------------------------
(* The unary operators: impl ops::Neg and ops::Not for Value.              *)

ValueNeg(v) ==
    CASE v.tag = "Number" -> RetVal(Number(TowerNeg(v.num)))
      [] v.tag = "Bool" -> RetVal(Number(Integer(-BoolAsI32(v.b))))
      [] OTHER -> Fatal("bad operand type for unary -")

\* ValueNot applying ! to the bool before the cast: !val as i32.
ValueNotBeforeCast(v) ==
    CASE v.tag = "Number" -> RetVal(Number(TowerNot(v.num)))
      [] v.tag = "Bool" -> RetVal(Number(Integer(BoolAsI32(~v.b))))
      [] OTHER -> Fatal("bad operand type for unary ~")

ValueNot(v) ==
    CASE v.tag = "Number" -> RetVal(Number(TowerNot(v.num)))
      [] v.tag = "Bool" -> RetVal(Number(Integer(BitNot32(BoolAsI32(v.b)))))
      [] OTHER -> Fatal("bad operand type for unary ~")

---------------------------------------------------------------------------
(* The values the operators are applied to.                                *)

Vars == {"x", "y"}
Names == {"__init__", "__name__", "x"}
Chars == {97, 122}                             \* 'a' and 'z'

RECURSIVE SeqsUpTo(_, _)
SeqsUpTo(S, n) ==
    IF n = 0 THEN {<<>>}
    ELSE LET shorter == SeqsUpTo(S, n - 1) IN
         shorter \cup {Append(q, e) : q \in shorter, e \in S}

Numbers ==
    {Number(Integer(n)) : n \in -MaxInt..MaxInt}
        \cup {Number(Float(h)) : h \in -MaxInt..MaxInt}
Strs == {Str(s) : s \in SeqsUpTo(Chars, MaxStrLen)}
Bools == {Bool(TRUE), Bool(FALSE)}
Elems == {Number(Integer(0)), Number(Integer(1))}
Tuples == {Tuple(q) : q \in SeqsUpTo(Elems, MaxLen)}

\* A closure that returns a constant, standing for any Function here.
SomeFunction == Function([name |-> "ret", v |-> None])

\* The heap the operators read: three List cells, a Class table, an Object table.
OpLists == <<(<<>>), <<Number(Integer(1))>>, <<Number(Integer(1))>>>>
OpTbls == <<[n \in {"__name__"} |-> Str(<<97>>)], [n \in {"__name__"} |-> Str(<<97>>)]>>

OpValues ==
    Numbers \cup Strs \cup Bools \cup Tuples
        \cup {List(a) : a \in DOMAIN OpLists}
        \cup {SomeFunction, Class(1), Object(2), TextIOWrapper, None}

InitOps ==
    /\ env = [v \in Vars |-> None]
    /\ lists = OpLists
    /\ tbls = OpTbls
    /\ classes = <<OpTbls[1]>>
    /\ aliasOf = {}
    /\ opnd \in OpValues \X OpValues
    /\ snaps = <<>>
    /\ last = [op |-> "init", res |-> RetVal(None)]

\* A unary operator takes the first operand, a binary operator both.
Apply1(name, res) ==
    /\ last' = [op |-> name, arg |-> opnd[1], res |-> res]
    /\ UNCHANGED <<env, lists, tbls, classes, aliasOf, opnd, snaps>>

Apply2(name, res) ==
    /\ last' = [op |-> name, lhs |-> opnd[1], rhs |-> opnd[2], res |-> res]
    /\ UNCHANGED <<env, lists, tbls, classes, aliasOf, opnd, snaps>>

\* The second operand is a List: an element is appended through it.
OpListAppend ==
    /\ opnd[2].tag = "List"
    /\ Len(lists[opnd[2].ref]) < MaxLen
    /\ \E e \in Elems : lists' = [lists EXCEPT ![opnd[2].ref] = Append(@, e)]
    /\ last' = [op |-> "list_append", res |-> RetVal(None)]
    /\ UNCHANGED <<env, tbls, classes, aliasOf, opnd, snaps>>

\* The second operand is a List: its last element is removed through it.
OpListPop ==
    /\ opnd[2].tag = "List"
    /\ lists[opnd[2].ref] # <<>>
    /\ lists' = [lists EXCEPT ![opnd[2].ref] = SubSeq(@, 1, Len(@) - 1)]
    /\ last' = [op |-> "list_pop", res |-> RetVal(None)]
    /\ UNCHANGED <<env, tbls, classes, aliasOf, opnd, snaps>>

OpToBool == Apply1("to_bool", ToBool(opnd[1]))
OpLogicalNot == Apply1("logical_not", LogicalNot(opnd[1]))
OpNeg == Apply1("neg", ValueNeg(opnd[1]))
OpNot == Apply1("not", ValueNot(opnd[1]))
OpEq == Apply2("eq", ValueEq(opnd[1], opnd[2]))
OpNe == Apply2("ne", ValueNe(opnd[1], opnd[2]))
OpLt == Apply2("lt", ValueLt(opnd[1], opnd[2]))
OpLe == Apply2("le", ValueLe(opnd[1], opnd[2]))
OpGt == Apply2("gt", ValueGt(opnd[1], opnd[2]))
OpGe == Apply2("ge", ValueGe(opnd[1], opnd[2]))
OpAdd == Apply2("add", ValueAdd(opnd[1], opnd[2]))
OpSub == Apply2("sub", ValueSub(opnd[1], opnd[2]))
OpMul == Apply2("mul", ValueMul(opnd[1], opnd[2]))
OpDiv == Apply2("div", ValueDiv(opnd[1], opnd[2]))
OpRem == Apply2("rem", ValueRem(opnd[1], opnd[2]))
OpPow == Apply2("pow", ValuePow(opnd[1], opnd[2]))
OpBitAnd == Apply2("bitand", ValueBitAnd(opnd[1], opnd[2]))
OpBitOr == Apply2("bitor", ValueBitOr(opnd[1], opnd[2]))
OpBitXor == Apply2("bitxor", ValueBitXor(opnd[1], opnd[2]))
OpShl == Apply2("shl", ValueShl(opnd[1], opnd[2]))
OpShr == Apply2("shr", ValueShr(opnd[1], opnd[2]))

\* String::contains: sub occurs in s at some offset.
StrContains(s, sub) ==
    \E i \in 0..(Len(s) - Len(sub)) : SubSeq(s, i + 1, i + Len(sub)) = sub

\* The containers' `contains`: some element equals x by the structural equality.
RECURSIVE SeqContains(_, _)
SeqContains(q, x) ==
    IF q = <<>> THEN RetBool(FALSE)
    ELSE LET r == ValueEq(Head(q), x) IN
         IF IsFatal(r) \/ r.b THEN r ELSE SeqContains(Tail(q), x)

ContainedIn(x, iterable) ==
    CASE iterable.tag = "List" -> SeqContains(lists[iterable.ref], x)
      [] iterable.tag = "Tuple" -> SeqContains(iterable.elems, x)
      [] iterable.tag = "Str" ->
            IF x.tag = "Str" THEN RetBool(StrContains(iterable.s, x.s))
            ELSE Fatal("in '<string>' string required as left operand")
      [] OTHER -> Fatal("value is not iterable")

\* not_contained_in whose List arm lacks the negation.
NotContainedInListUnnegated(x, iterable) ==
    CASE iterable.tag = "List" -> SeqContains(lists[iterable.ref], x)
      [] iterable.tag = "Tuple" ->
            LET r == SeqContains(iterable.elems, x) IN
            IF IsFatal(r) THEN r ELSE RetBool(~r.b)
      [] iterable.tag = "Str" ->
            IF x.tag = "Str" THEN RetBool(~StrContains(iterable.s, x.s))
            ELSE Fatal("in '<string>' string required as left operand")
      [] OTHER -> Fatal("value is not iterable")

NotContainedIn(x, iterable) ==
    CASE iterable.tag = "List" ->
            LET r == SeqContains(lists[iterable.ref], x) IN
            IF IsFatal(r) THEN r ELSE RetBool(~r.b)
      [] iterable.tag = "Tuple" ->
            LET r == SeqContains(iterable.elems, x) IN
            IF IsFatal(r) THEN r ELSE RetBool(~r.b)
      [] iterable.tag = "Str" ->
            IF x.tag = "Str" THEN RetBool(~StrContains(iterable.s, x.s))
            ELSE Fatal("in '<string>' string required as left operand")
      [] OTHER -> Fatal("value is not iterable")

OpContainedIn == Apply2("contained_in", ContainedIn(opnd[1], opnd[2]))
OpNotContainedIn == Apply2("not_contained_in", NotContainedIn(opnd[1], opnd[2]))

NextOps ==
    \/ OpToBool \/ OpLogicalNot \/ OpNeg \/ OpNot
    \/ OpEq \/ OpNe \/ OpLt \/ OpLe \/ OpGt \/ OpGe
    \/ OpAdd \/ OpSub \/ OpMul \/ OpDiv \/ OpRem \/ OpPow
    \/ OpBitAnd \/ OpBitOr \/ OpBitXor \/ OpShl \/ OpShr
    \/ OpListAppend \/ OpListPop
    \/ OpContainedIn \/ OpNotContainedIn

SpecOps == InitOps /\ [][NextOps]_vars

---------------------------------------------------------------------------
(* #[derive(Clone)] for Value.  Cloning an Rc duplicates the handle, not   *)
(* the cell; a Tuple owns its elements, which are cloned one by one.       *)
(* A clone is a value and the heap of List cells after it.                 *)

RECURSIVE CloneElems(_)
CloneElems(q) ==
    IF q = <<>> THEN <<>>
    ELSE <<Head(q)>> \o CloneElems(Tail(q))

\* Value::clone copying the List cell instead of the Rc handle.
CloneDeep(v, heap) ==
    CASE v.tag = "List" ->
            [val |-> List(Len(heap) + 1), heap |-> Append(heap, heap[v.ref])]
      [] v.tag = "Tuple" -> [val |-> Tuple(CloneElems(v.elems)), heap |-> heap]
      [] OTHER -> [val |-> v, heap |-> heap]

Clone(v, heap) ==
    CASE v.tag = "List" -> [val |-> List(v.ref), heap |-> heap]
      [] v.tag = "Tuple" -> [val |-> Tuple(CloneElems(v.elems)), heap |-> heap]
      [] OTHER -> [val |-> v, heap |-> heap]

---------------------------------------------------------------------------
(* Attribute tables: HashMap<String, Value>.                               *)

EmptyTbl == [n \in {} |-> None]
Insert(t, k, v) == [n \in DOMAIN t \cup {k} |-> IF n = k THEN v ELSE t[n]]
\* Writing a table at an address: a fresh address extends the heap.
Store(heap, addr, t) ==
    IF addr \in DOMAIN heap THEN [heap EXCEPT ![addr] = t] ELSE Append(heap, t)

---------------------------------------------------------------------------
(* Closures: Rc<Fn(Vec<Value>, HashMap<String, Value>) -> Value>.          *)
(* The generated code supplies them; three kinds stand for them here.      *)
(*   setx(v):  self.x = v, returns None                                    *)
(*   setarg:   self.x = the first argument after self, returns None        *)
(*   ret(v):   returns v                                                   *)

SetX(v) == Function([name |-> "setx", v |-> v])
SetArg == Function([name |-> "setarg", v |-> None])
Ret(v) == Function([name |-> "ret", v |-> v])

\* The closure's run: its result and the heap of tables after it.
RunClosure(f, args, kwargs, heap) ==
    CASE f.name = "setx" ->
            IF Len(args) >= 1 /\ args[1].tag = "Object"
            THEN [res |-> RetVal(None),
                  heap |-> [heap EXCEPT ![args[1].tbl] = Insert(@, "x", f.v)]]
            ELSE [res |-> Fatal("self is not an object"), heap |-> heap]
      [] f.name = "setarg" ->
            IF Len(args) >= 2 /\ args[1].tag = "Object"
            THEN [res |-> RetVal(None),
                  heap |-> [heap EXCEPT ![args[1].tbl] = Insert(@, "x", args[2])]]
            ELSE [res |-> Fatal("index out of bounds"), heap |-> heap]
      [] OTHER -> [res |-> RetVal(f.v), heap |-> heap]

---------------------------------------------------------------------------
(* Value::call.                                                            *)

\* The address of the new Object's table: a fresh Rc<RefCell<..>>.
ObjectTblShared(cls, fresh) == cls
ObjectTbl(cls, fresh) == fresh

\* amended_args: self, then the caller's arguments.
AmendedArgsAppended(self, args) == args \o <<self>>
AmendedArgs(self, args) == <<self>> \o args

\* The tables after __init__ ran on a private copy of the new Object.
AfterInitOnCopy(before, after) == before
AfterInit(before, after) == after

\* HashMap::clone leaving the new table empty.
CloneTblEmpty(t) == EmptyTbl
\* HashMap::clone that leaves out the members that are handles of shared state.
CloneTblWithoutHandles(t) ==
    [n \in {k \in DOMAIN t : t[k].tag \notin {"List", "Object"}} |-> t[n]]
\* HashMap::clone: the same keys, each value cloned (a handle stays a handle).
CloneTbl(t) == [n \in DOMAIN t |-> t[n]]

\* The call of a callee that is no Class: a Function runs its closure, any
\* other variant is unimplemented.
CallPlain(callee, args, kwargs, heap) ==
    IF callee.tag = "Function"
    THEN RunClosure(callee.f, args, kwargs, heap)
    ELSE [res |-> Fatal(Unimplemented), heap |-> heap]

\* The call: its result, the tables after it, the table the new Object was built
\* with, and the calls of `call` it made itself (of __init__).  A Class member is
\* a Number, Str or Function here, so __init__ is never itself a Class.
Call(callee, args, kwargs, heap) ==
    IF callee.tag = "Class"
    THEN LET tbl == heap[callee.tbl]
             addr == ObjectTbl(callee.tbl, Len(heap) + 1)
             built == Store(heap, addr, CloneTbl(tbl))
             obj == Object(addr)
         IN  IF "__init__" \in DOMAIN tbl
             THEN LET amended == AmendedArgs(obj, args)
                      r == CallPlain(tbl["__init__"], amended, kwargs, built)
                  IN  [res |-> IF IsFatal(r.res) THEN r.res ELSE RetVal(obj),
                       heap |-> AfterInit(built, r.heap),
                       calls |-> <<[callee |-> tbl["__init__"], args |-> amended,
                                    kwargs |-> kwargs, ret |-> r.res]>>,
                       born |-> built[addr]]
             ELSE [res |-> RetVal(obj), heap |-> built, calls |-> <<>>,
                   born |-> built[addr]]
    ELSE LET r == CallPlain(callee, args, kwargs, heap) IN
         [res |-> r.res, heap |-> r.heap, calls |-> <<>>, born |-> EmptyTbl]

---------------------------------------------------------------------------
(* Value::get_attr.                                                        *)

\* get_attr looking an Object's attribute up in the table it was built from.
GetAttrOfBuiltTbl(v, attr) ==
    CASE v.tag = "Object" ->
            IF attr \in DOMAIN tbls[1]
            THEN RetVal(Clone(tbls[1][attr], lists).val)
            ELSE FatalAttr("object has no attribute", attr)
      [] v.tag = "Class" ->
            IF attr \in DOMAIN tbls[v.tbl]
            THEN RetVal(Clone(tbls[v.tbl][attr], lists).val)
            ELSE FatalAttr("class has no attribute", attr)
      [] OTHER -> Fatal(Unreachable)

GetAttr(v, attr) ==
    CASE v.tag = "Object" ->
            IF attr \in DOMAIN tbls[v.tbl]
            THEN RetVal(Clone(tbls[v.tbl][attr], lists).val)
            ELSE FatalAttr("object has no attribute", attr)
      [] v.tag = "Class" ->
            IF attr \in DOMAIN tbls[v.tbl]
            THEN RetVal(Clone(tbls[v.tbl][attr], lists).val)
            ELSE FatalAttr("class has no attribute", attr)
      [] OTHER -> Fatal(Unreachable)

---------------------------------------------------------------------------
(* The program: bindings over a heap.  One Class, at address 1 of `tbls`,  *)
(* is defined before the program starts.  A fatal error ends the program.  *)
(* The heap holds at most MaxObjs cells besides the Class's table, of      *)
(* which at most MaxLists are lists.                                       *)

MaxLists == 1
MaxSnaps == 2

TheClass == Class(1)
BaseTbl == [n \in {"__name__"} |-> Str(<<97>>)]

ClassTables ==
    {BaseTbl,
     Insert(BaseTbl, "x", Number(Integer(0))),
     Insert(BaseTbl, "__init__", Ret(Number(Integer(1)))),
     Insert(BaseTbl, "__init__", Number(Integer(1))),
     Insert(BaseTbl, "__init__", SetArg),
     Insert(Insert(BaseTbl, "x", Number(Integer(0))), "__init__",
            SetX(Number(Integer(1))))}
        \cup {Insert(BaseTbl, "__init__", SetX(v)) : v \in Elems}

CallArgs == SeqsUpTo(Elems, 1)
CallKwargs == {EmptyTbl, [n \in {"k"} |-> Number(Integer(1))]}
HeapTuples == {Tuple(q) : q \in SeqsUpTo(Elems, 1)}

Running == last.res.ok

\* The pairs of duplicates once binding x is bound anew.
Unalias(x) == {p \in aliasOf : p[1] # x /\ p[2] # x}
\* The pairs of duplicates once y is bound to a duplicate of x.
Alias(x, y) ==
    Unalias(y) \cup {<<x, y>>, <<y, x>>}
        \cup {<<z, y>> : z \in {w \in Vars \ {y} : <<w, x>> \in aliasOf}}
        \cup {<<y, z>> : z \in {w \in Vars \ {y} : <<w, x>> \in aliasOf}}

\* x = []
NewList(x) ==
    /\ Running
    /\ Len(lists) < MaxLists
    /\ Len(lists) + Len(tbls) < 1 + MaxObjs
    /\ lists' = Append(lists, <<>>)
    /\ env' = [env EXCEPT ![x] = List(Len(lists) + 1)]
    /\ aliasOf' = Unalias(x)
    /\ last' = [op |-> "new_list", res |-> RetVal(None)]
    /\ UNCHANGED <<tbls, classes, opnd, snaps>>

\* x = (..)
BindTuple(x, t) ==
    /\ Running
    /\ env[x] # t
    /\ env' = [env EXCEPT ![x] = t]
    /\ aliasOf' = Unalias(x)
    /\ last' = [op |-> "bind_tuple", res |-> RetVal(None)]
    /\ UNCHANGED <<lists, tbls, classes, opnd, snaps>>

\* x = (y,) for a List y: the tuple holds a duplicate of the handle
BindTupleOf(x, y) ==
    /\ Running
    /\ x # y
    /\ env[y].tag = "List"
    /\ LET c == Clone(env[y], lists) IN
         /\ env' = [env EXCEPT ![x] = Tuple(<<c.val>>)]
         /\ lists' = c.heap
    /\ aliasOf' = Unalias(x)
    /\ last' = [op |-> "bind_tuple", res |-> RetVal(None)]
    /\ UNCHANGED <<tbls, classes, opnd, snaps>>

\* y = x.clone()
Duplicate(x, y) ==
    /\ Running
    /\ x # y
    /\ env[x].tag \in {"List", "Tuple", "Object"}
    /\ LET c == Clone(env[x], lists) IN
         /\ env' = [env EXCEPT ![y] = c.val]
         /\ lists' = c.heap
    /\ aliasOf' = Alias(x, y)
    /\ last' = [op |-> "clone", res |-> RetVal(None)]
    /\ UNCHANGED <<tbls, classes, opnd, snaps>>

\* x.borrow_mut() of a List, then ListType's append
ListAppend(x, e) ==
    /\ Running
    /\ env[x].tag = "List"
    /\ Len(lists[env[x].ref]) < MaxLen
    /\ lists' = [lists EXCEPT ![env[x].ref] = Append(@, e)]
    /\ last' = [op |-> "list_append", var |-> x, res |-> RetVal(None)]
    /\ UNCHANGED <<env, tbls, classes, aliasOf, opnd, snaps>>

\* x.borrow_mut() of a List, then the removal of its last element
ListPop(x) ==
    /\ Running
    /\ env[x].tag = "List"
    /\ lists[env[x].ref] # <<>>
    /\ lists' = [lists EXCEPT ![env[x].ref] = SubSeq(@, 1, Len(@) - 1)]
    /\ last' = [op |-> "list_pop", res |-> RetVal(None)]
    /\ UNCHANGED <<env, tbls, classes, aliasOf, opnd, snaps>>

\* x = TheClass.call(args, kwargs)
CallClass(x, args, kwargs) ==
    /\ Running
    /\ Len(lists) + Len(tbls) < 1 + MaxObjs
    /\ LET r == Call(TheClass, args, kwargs, tbls) IN
         /\ tbls' = r.heap
         /\ env' = IF r.res.ok THEN [env EXCEPT ![x] = r.res.v] ELSE env
         /\ aliasOf' = IF r.res.ok THEN Unalias(x) ELSE aliasOf
         /\ last' = [op |-> "call", callee |-> TheClass, args |-> args,
                     kwargs |-> kwargs, res |-> r.res, calls |-> r.calls,
                     born |-> r.born, allocated |-> DOMAIN tbls]
    /\ UNCHANGED <<lists, classes, opnd, snaps>>

\* The values called that are no Class: closures, and one of each other variant.
PlainCallees ==
    {Ret(Number(Integer(1))), SetX(Number(Integer(1))), Number(Integer(1)),
     Str(<<97>>), Bool(TRUE), Tuple(<<>>), TextIOWrapper, None}
        \cup {env[x] : x \in Vars}

\* callee.call(args, kwargs), the callee no Class
CallValue(callee, args, kwargs) ==
    /\ Running
    /\ callee.tag # "Class"
    /\ LET r == Call(callee, args, kwargs, tbls) IN
         /\ tbls' = r.heap
         /\ last' = [op |-> "call", callee |-> callee, args |-> args,
                     kwargs |-> kwargs, res |-> r.res, calls |-> r.calls,
                     born |-> r.born, allocated |-> DOMAIN tbls]
    /\ UNCHANGED <<env, lists, classes, aliasOf, opnd, snaps>>

\* x.tbl.borrow_mut() of an Object, then HashMap::insert
SetAttr(x, attr, v) ==
    /\ Running
    /\ env[x].tag = "Object"
    /\ tbls' = [tbls EXCEPT ![env[x].tbl] = Insert(@, attr, v)]
    /\ last' = [op |-> "set_attr", var |-> x, attr |-> attr, v |-> v,
                res |-> RetVal(None)]
    /\ UNCHANGED <<env, lists, classes, aliasOf, opnd, snaps>>

\* v.get_attr(attr)
ReadAttr(v, attr) ==
    /\ Running
    /\ last' = [op |-> "get_attr", arg |-> v, attr |-> attr, res |-> GetAttr(v, attr)]
    /\ UNCHANGED <<env, lists, tbls, classes, aliasOf, opnd, snaps>>

\* x == y
Compare(x, y) ==
    /\ Running
    /\ last' = [op |-> "eq", lhs |-> env[x], rhs |-> env[y],
                res |-> ValueEq(env[x], env[y])]
    /\ UNCHANGED <<env, lists, tbls, classes, aliasOf, opnd, snaps>>

---------------------------------------------------------------------------
(* The Class and its instances: the program calls the Class and other      *)
(* values, sets attributes of the Objects it holds and reads attributes.    *)

Init ==
    /\ env = [v \in Vars |-> None]
    /\ lists = <<>>
    /\ tbls \in {<<t>> : t \in ClassTables}
    /\ classes = tbls
    /\ aliasOf = {}
    /\ opnd = <<None, None>>
    /\ snaps = <<>>
    /\ last = [op |-> "init", res |-> RetVal(None)]

Next ==
    \/ \E x \in Vars, args \in CallArgs, kwargs \in CallKwargs :
          CallClass(x, args, kwargs)
    \/ \E callee \in PlainCallees, args \in {<<env[x]>> : x \in Vars},
          kwargs \in CallKwargs : CallValue(callee, args, kwargs)
    \/ \E x, y \in Vars : Duplicate(x, y)
    \/ \E x \in Vars, v \in Elems : SetAttr(x, "x", v)
    \/ \E v \in {env[x] : x \in Vars} \cup {TheClass}, attr \in Names : ReadAttr(v, attr)

Spec == Init /\ [][Next]_vars

---------------------------------------------------------------------------
(* Aliasing: the program creates lists, tuples and Objects, duplicates     *)
(* bindings, mutates in place through any binding and compares bindings.   *)

InitAlias ==
    /\ env = [v \in Vars |-> None]
    /\ lists = <<>>
    /\ tbls = <<BaseTbl>>
    /\ classes = tbls
    /\ aliasOf = {}
    /\ opnd = <<None, None>>
    /\ snaps = <<>>
    /\ last = [op |-> "init", res |-> RetVal(None)]

NextAlias ==
    \/ \E x \in Vars : NewList(x)
    \/ \E x \in Vars, t \in HeapTuples : BindTuple(x, t)
    \/ \E x, y \in Vars : BindTupleOf(x, y)
    \/ \E x \in Vars : CallClass(x, <<>>, EmptyTbl)
    \/ \E x, y \in Vars : Duplicate(x, y)
    \/ \E x \in Vars, e \in Elems : ListAppend(x, e)
    \/ \E x \in Vars : ListPop(x)
    \/ \E x \in Vars, v \in Elems : SetAttr(x, "x", v)
    \/ \E x, y \in Vars : Compare(x, y)

SpecAlias == InitAlias /\ [][NextAlias]_vars

---------------------------------------------------------------------------
(* Properties of the operators, checked under SpecOps.                     *)

EqLeftVariants == {"Number", "Str", "Bool", "List", "Tuple", "None"}
OrderedVariants == {"Number", "Str", "Bool"}
CmpOps == {"lt", "le", "gt", "ge"}
BinOps == {"add", "sub", "mul", "div", "rem", "pow", "bitand", "bitor",
           "bitxor", "shl", "shr"}

\* C6 as stated: for every ordered pair of Values of different variants, all ten
\* variants on either side, == returns false and != returns true, never an error.
C6_CrossVariantNeverErrors ==
    (last.op \in {"eq", "ne"} /\ last.lhs.tag # last.rhs.tag)
        => last.res = RetBool(last.op = "ne")

\* C6 as amended: for a pair of Values of different variants, == returns false and
\* != returns true when the left operand is a Number, Str, Bool, List, Tuple or
\* None (whatever the right operand); when the left operand is a Function, Class,
\* Object or TextIOWrapper both comparisons end in a fatal error.
C6_CrossVariantByLeftOperand ==
    (last.op \in {"eq", "ne"} /\ last.lhs.tag # last.rhs.tag)
        => IF last.lhs.tag \in EqLeftVariants
           THEN last.res = RetBool(last.op = "ne")
           ELSE last.res = Fatal(Unimplemented)

C6_Witness ==
    /\ last.op = "eq"
    /\ last.lhs.tag = "Number"
    /\ last.rhs.tag = "Function"
    /\ last.res = RetBool(FALSE)

\* The order of two strings, stated on positions: they agree before position i,
\* and at i the left one has ended or holds the smaller byte.
LexLess(s, t) ==
    \E i \in 1..Len(t) :
        /\ \A j \in 1..(i - 1) : j <= Len(s) /\ s[j] = t[j]
        /\ (i > Len(s) \/ s[i] < t[i])

PayloadLess(a, b) ==
    CASE a.tag = "Number" -> Twice(a.num) < Twice(b.num)
      [] a.tag = "Str" -> LexLess(a.s, b.s)
      [] a.tag = "Bool" -> ~a.b /\ b.b

PayloadOrder(op, a, b) ==
    CASE op = "lt" -> PayloadLess(a, b)
      [] op = "le" -> PayloadLess(a, b) \/ a = b \/ (a.tag = "Number" /\ TowerEq(a.num, b.num))
      [] op = "gt" -> PayloadLess(b, a)
      [] op = "ge" -> PayloadLess(b, a) \/ a = b \/ (a.tag = "Number" /\ TowerEq(a.num, b.num))

\* C7: <, <=, >, >= return a result only for Number-Number, Str-Str and Bool-Bool,
\* and then the payload's own ordering (false < true); every other pair, same
\* variant or not, ends in a fatal error.
C7_OrderingDefinedOnlyOnThreeVariants ==
    last.op \in CmpOps =>
        IF last.lhs.tag = last.rhs.tag /\ last.lhs.tag \in OrderedVariants
        THEN last.res = RetBool(PayloadOrder(last.op, last.lhs, last.rhs))
        ELSE IsFatal(last.res)

C7_Witness ==
    /\ last.op = "lt"
    /\ last.lhs.tag = "List"
    /\ last.rhs.tag = "List"
    /\ IsFatal(last.res)

\* C9: each binary operator applied to Number and Number returns the Number of
\* the tower's result; + applied to Str and Str returns the concatenation, left
\* then right; every other pairing of every operator ends in a fatal error.
C9_BinaryDispatch ==
    last.op \in BinOps =>
        LET a == last.lhs
            b == last.rhs
        IN  IF a.tag = "Number" /\ b.tag = "Number"
            THEN last.res = RetVal(Number(TowerBin(last.op, a.num, b.num)))
            ELSE IF last.op = "add" /\ a.tag = "Str" /\ b.tag = "Str"
            THEN /\ IsVal(last.res)
                 /\ last.res.v.tag = "Str"
                 /\ Len(last.res.v.s) = Len(a.s) + Len(b.s)
                 /\ SubSeq(last.res.v.s, 1, Len(a.s)) = a.s
                 /\ SubSeq(last.res.v.s, Len(a.s) + 1, Len(a.s) + Len(b.s)) = b.s
            ELSE IsFatal(last.res)

C9_Witness ==
    /\ last.op = "add"
    /\ last.lhs = Str(<<97>>)
    /\ last.rhs = Str(<<122>>)
    /\ last.res = RetVal(Str(<<97, 122>>))

\* C10: unary - gives Integer(-1) for Bool(true) and Integer(0) for Bool(false);
\* the complement gives Integer(-2) for Bool(true) and Integer(-1) for
\* Bool(false); on an integer Number n they give -n and -n-1, on any Number a
\* Number; on every other variant both end in a fatal error.
C10_UnaryOperators ==
    last.op \in {"neg", "not"} =>
        LET v == last.arg IN
        CASE v.tag = "Bool" ->
                last.res = RetVal(Number(Integer(
                    IF last.op = "neg" THEN (IF v.b THEN -1 ELSE 0)
                    ELSE (IF v.b THEN -2 ELSE -1))))
          [] v.tag = "Number" /\ v.num.kind = "Integer" ->
                last.res = RetVal(Number(Integer(
                    IF last.op = "neg" THEN -v.num.n ELSE -v.num.n - 1)))
          [] v.tag = "Number" /\ v.num.kind # "Integer" ->
                /\ IsVal(last.res)
                /\ last.res.v.tag = "Number"
                /\ last.op = "neg" => last.res.v.num = Float(-v.num.h)
          [] OTHER -> IsFatal(last.res)

C10_Witness ==
    /\ last.op = "not"
    /\ last.arg = Bool(TRUE)
    /\ last.res = RetVal(Number(Integer(-2)))

\* C8: to_bool is false exactly for a zero Number (integer 0, float 0.0), the
\* empty Str, Bool(false), an empty List, an empty Tuple and None; true for every
\* other Number, Str, List and Tuple, for Bool(true) and for every Function, Class
\* and Object; a fatal error on TextIOWrapper.  A List answers for the contents
\* its cell holds at the call, whichever binding put them there.
C8_Truthiness ==
    last.op = "to_bool" =>
        LET v == last.arg IN
        CASE v.tag = "Number" ->
                last.res = RetBool(v.num \notin {Integer(0), Float(0)})
          [] v.tag = "Str" -> last.res = RetBool(Len(v.s) >= 1)
          [] v.tag = "Bool" -> last.res = RetBool(v.b)
          [] v.tag = "List" -> last.res = RetBool(Len(lists[v.ref]) >= 1)
          [] v.tag = "Tuple" -> last.res = RetBool(Len(v.elems) >= 1)
          [] v.tag = "None" -> last.res = RetBool(FALSE)
          [] v.tag \in {"Function", "Class", "Object"} -> last.res = RetBool(TRUE)
          [] OTHER -> IsFatal(last.res)

\* A List that started non-empty, emptied through the second binding, is falsy
\* through the first.
C8_Witness ==
    /\ last.op = "to_bool"
    /\ last.arg = List(2)
    /\ opnd[2] = List(2)
    /\ OpLists[2] # <<>>
    /\ lists[2] = <<>>
    /\ last.res = RetBool(FALSE)

---------------------------------------------------------------------------
(* Properties of the Class and its instances, checked under Spec.          *)

\* The value a setx or setarg __init__ binds to self.x in the latest call.
InitValue(f, args) == IF f.name = "setx" THEN f.v ELSE args[1]

\* C1: when the Class's __init__ is a Function that sets attribute x of self to v,
\* the Object the call returns yields v for get_attr("x"), and it is the Object
\* __init__ was handed as self.
C1_InitVisibleThroughResult ==
    (/\ last.op = "call"
     /\ last.callee.tag = "Class"
     /\ last.res.ok
     /\ "__init__" \in DOMAIN tbls[last.callee.tbl]
     /\ tbls[last.callee.tbl]["__init__"].tag = "Function"
     /\ tbls[last.callee.tbl]["__init__"].f.name \in {"setx", "setarg"})
        => /\ GetAttr(last.res.v, "x")
                = RetVal(InitValue(tbls[last.callee.tbl]["__init__"].f, last.args))
           /\ last.calls[1].args[1] = last.res.v

\* The Class binds x to 0 and its __init__ sets self.x to 1: the instance reads 1.
C1_Witness ==
    /\ last.op = "call"
    /\ last.callee.tag = "Class"
    /\ last.res.ok
    /\ "x" \in DOMAIN tbls[last.callee.tbl]
    /\ tbls[last.callee.tbl]["x"] = Number(Integer(0))
    /\ "__init__" \in DOMAIN tbls[last.callee.tbl]
    /\ GetAttr(last.res.v, "x") = RetVal(Number(Integer(1)))

\* The Object a call of a Class constructs: its table is at the first address
\* not allocated before the call.
NewObject(allocated) == Object(Cardinality(allocated) + 1)

\* C2: a call of a Class with an __init__ entry calls that entry exactly once, with
\* the new Object followed by the caller's arguments in order and with the
\* caller's kwargs, and discards what it returns; without an __init__ entry it
\* calls nothing; what it returns is the new Object.  A call of a Function
\* returns the closure's result; a call of any other variant is a fatal error.
C2_CallProtocol ==
    last.op = "call" =>
        CASE last.callee.tag = "Class" ->
                LET tbl == tbls[last.callee.tbl]
                    obj == NewObject(last.allocated)
                IN  /\ obj.tbl \notin last.allocated
                    /\ last.res.ok => last.res = RetVal(obj)
                    /\ IF "__init__" \in DOMAIN tbl
                       THEN /\ Len(last.calls) = 1
                            /\ last.calls[1].callee = tbl["__init__"]
                            /\ last.calls[1].args = <<obj>> \o last.args
                            /\ last.calls[1].kwargs = last.kwargs
                            /\ IsFatal(last.res) <=> IsFatal(last.calls[1].ret)
                       ELSE /\ last.calls = <<>>
                            /\ last.res.ok
          [] last.callee.tag = "Function" ->
                /\ last.calls = <<>>
                /\ last.res = RunClosure(last.callee.f, last.args, last.kwargs, tbls).res
          [] OTHER ->
                /\ last.calls = <<>>
                /\ last.res = Fatal(Unimplemented)

\* __init__ returned the Number 1, and the call with an argument returned the Object.
C2_Witness ==
    /\ last.op = "call"
    /\ last.callee.tag = "Class"
    /\ Len(last.args) = 1
    /\ Len(last.calls) = 1
    /\ last.calls[1].ret = RetVal(Number(Integer(1)))
    /\ last.res = RetVal(NewObject(last.allocated))

\* C3: a Class's member table has, after any calls, reads and attribute updates,
\* exactly the keys and bindings it had when the Class was created.
C3_ClassTableImmutable ==
    \A c \in DOMAIN classes : tbls[c] = classes[c]

\* An instance of the Class has just had an attribute set that the Class lacks.
C3_Witness ==
    /\ last.op = "set_attr"
    /\ env[last.var].tag = "Object"
    /\ "x" \notin DOMAIN classes[1]
    /\ "x" \in DOMAIN tbls[env[last.var].tbl]

\* C4: the Object a call of a Class constructs starts with a mapping equal to the
\* Class's member table, at an address of its own; Objects of separate calls have
\* separate mappings; and setting an attribute of one Object changes no other
\* mapping, the Class's included.
C4_Born ==
    (last.op = "call" /\ last.callee.tag = "Class")
        => /\ last.born = classes[last.callee.tbl]
           /\ last.res.ok => /\ last.res.v.tbl \notin last.allocated
                             /\ last.res.v.tbl \notin DOMAIN classes

C4_Separate ==
    \A x, y \in Vars :
        (/\ env[x].tag = "Object"
         /\ env[y].tag = "Object"
         /\ x # y
         /\ <<x, y>> \notin aliasOf)
            => env[x].tbl # env[y].tbl

C4_Frame ==
    last'.op = "set_attr"
        => \A a \in DOMAIN tbls : a # env[last'.var].tbl => tbls'[a] = tbls[a]

C4_FreshCopyThenIndependent ==
    [](C4_Born /\ C4_Separate) /\ [][C4_Frame]_vars

\* Two Objects of separate calls, whose mappings differ after an attribute of one
\* was set.
C4_Witness ==
    /\ last.op = "set_attr"
    /\ env["x"].tag = "Object"
    /\ env["y"].tag = "Object"
    /\ env["x"].tbl # env["y"].tbl
    /\ tbls[env["x"].tbl] # tbls[env["y"].tbl]

---------------------------------------------------------------------------
(* Properties of aliasing, checked under SpecAlias.                        *)

---------------------------------------------------------------------------
(* Properties of get_attr, checked under Spec.                             *)

\* The bindings that hold the Object v.
Holders(v) == {z \in Vars : env[z] = v}

\* What get_attr returned is what the mapping binds; a missing name is fatal and
\* the error names it; a value that is no Object and no Class is fatal.
C11_Lookup ==
    last.op = "get_attr" =>
        CASE last.arg.tag = "Object" ->
                IF last.attr \in DOMAIN tbls[last.arg.tbl]
                THEN last.res = RetVal(tbls[last.arg.tbl][last.attr])
                ELSE /\ IsFatal(last.res)
                     /\ last.res.attr = last.attr
          [] last.arg.tag = "Class" ->
                IF last.attr \in DOMAIN classes[last.arg.tbl]
                THEN last.res = RetVal(classes[last.arg.tbl][last.attr])
                ELSE /\ IsFatal(last.res)
                     /\ last.res.attr = last.attr
          [] OTHER -> IsFatal(last.res)

\* A read that follows an update returns the updated value, through the binding
\* that made the update and through every duplicate of it.
C11_LatestUpdate ==
    (/\ last.op = "set_attr"
     /\ last'.op = "get_attr"
     /\ last'.attr = last.attr
     /\ \E z \in Holders(last'.arg) : z = last.var \/ <<last.var, z>> \in aliasOf)
        => last'.res = RetVal(last.v)

\* A read changes no mapping, no list and no binding.
C11_ReadOnly ==
    last'.op = "get_attr" => /\ tbls' = tbls
                             /\ lists' = lists
                             /\ env' = env

\* C11: get_attr on an Object returns the value its shared mapping binds now,
\* hence the latest update made through any alias; on a Class the value its
\* table binds; a missing name is a fatal error naming it; any other variant is
\* a fatal error; and get_attr changes no mapping.
C11_GetAttr ==
    []C11_Lookup /\ [][C11_LatestUpdate /\ C11_ReadOnly]_vars

\* y duplicates the Object x; the Class binds no x and has no __init__, and the
\* read through y returned the 1 that was set.
C11_Witness ==
    /\ last.op = "get_attr"
    /\ last.attr = "x"
    /\ <<"x", "y">> \in aliasOf
    /\ last.arg = env["y"]
    /\ last.arg.tag = "Object"
    /\ "x" \notin DOMAIN classes[1]
    /\ "__init__" \notin DOMAIN classes[1]
    /\ last.res = RetVal(Number(Integer(1)))

---------------------------------------------------------------------------
(* Value::clone_seq and the sequences it returns.  A Vec<Value> owns its   *)
(* elements; a view of a List cell is what a shared handle would be.       *)

Owned(q) == [own |-> TRUE, elems |-> q]
View(ref) == [own |-> FALSE, ref |-> ref]
RetSeq(s) == [ok |-> TRUE, seq |-> s]

\* The elements a returned sequence has now.
SnapElems(s) == IF s.own THEN s.elems ELSE lists[s.ref]

\* clone_seq handing out the List's cell instead of a copy of its contents.
CloneSeqView(v) ==
    CASE v.tag = "List" -> RetSeq(View(v.ref))
      [] v.tag = "Tuple" -> RetSeq(Owned(CloneElems(v.elems)))
      [] OTHER -> Fatal("value not iterable")

CloneSeq(v) ==
    CASE v.tag = "List" -> RetSeq(Owned(CloneElems(lists[v.ref])))
      [] v.tag = "Tuple" -> RetSeq(Owned(CloneElems(v.elems)))
      [] OTHER -> Fatal("value not iterable")

\* The values bound to the second name: an alias of the List, a Tuple, and a
\* value that is not iterable.
SeqOthers ==
    {List(1), Tuple(<<Number(Integer(0))>>), None}

\* let s = x.clone_seq()
TakeSnapshot(x) ==
    /\ Running
    /\ Len(snaps) < MaxSnaps
    /\ LET r == CloneSeq(env[x]) IN
         /\ snaps' = IF r.ok THEN Append(snaps, r.seq) ELSE snaps
         /\ last' = [op |-> "clone_seq", arg |-> env[x], res |-> r]
    /\ UNCHANGED <<env, lists, tbls, classes, aliasOf, opnd>>

\* x[i] = e on a List: the element is replaced in place
ListReplace(x, i, e) ==
    /\ Running
    /\ env[x].tag = "List"
    /\ i \in DOMAIN lists[env[x].ref]
    /\ lists[env[x].ref][i] # e
    /\ lists' = [lists EXCEPT ![env[x].ref][i] = e]
    /\ last' = [op |-> "list_set", var |-> x, res |-> RetVal(None)]
    /\ UNCHANGED <<env, tbls, classes, aliasOf, opnd, snaps>>

\* The heap of lists and the held sequences once sequence i has elements q.
SnapWrite(i, q) ==
    IF snaps[i].own
    THEN [lists |-> lists, snaps |-> [snaps EXCEPT ![i] = Owned(q)]]
    ELSE [lists |-> [lists EXCEPT ![snaps[i].ref] = q], snaps |-> snaps]

\* s.push(e) on a returned sequence
SnapPush(i, e) ==
    /\ Running
    /\ i \in DOMAIN snaps
    /\ Len(SnapElems(snaps[i])) < MaxLen
    /\ LET w == SnapWrite(i, Append(SnapElems(snaps[i]), e)) IN
         /\ lists' = w.lists
         /\ snaps' = w.snaps
    /\ last' = [op |-> "snap_push", idx |-> i, res |-> RetVal(None)]
    /\ UNCHANGED <<env, tbls, classes, aliasOf, opnd>>

\* s.pop() on a returned sequence
SnapPop(i) ==
    /\ Running
    /\ i \in DOMAIN snaps
    /\ SnapElems(snaps[i]) # <<>>
    /\ LET q == SnapElems(snaps[i])
           w == SnapWrite(i, SubSeq(q, 1, Len(q) - 1))
       IN  /\ lists' = w.lists
           /\ snaps' = w.snaps
    /\ last' = [op |-> "snap_pop", idx |-> i, res |-> RetVal(None)]
    /\ UNCHANGED <<env, tbls, classes, aliasOf, opnd>>

InitSeq ==
    /\ lists = <<(<<>>)>>
    /\ env \in {[v \in Vars |-> IF v = "x" THEN List(1) ELSE o] : o \in SeqOthers}
    /\ aliasOf = IF env["y"] = List(1) THEN {<<"x", "y">>, <<"y", "x">>} ELSE {}
    /\ tbls = <<BaseTbl>>
    /\ classes = tbls
    /\ opnd = <<None, None>>
    /\ snaps = <<>>
    /\ last = [op |-> "init", res |-> RetVal(None)]

NextSeq ==
    \/ \E x \in Vars : TakeSnapshot(x)
    \/ \E x \in Vars, e \in Elems : ListAppend(x, e)
    \/ \E x \in Vars : ListPop(x)
    \/ \E x \in Vars, i \in 1..MaxLen, e \in Elems : ListReplace(x, i, e)
    \/ \E i \in 1..MaxSnaps, e \in Elems : SnapPush(i, e)
    \/ \E i \in 1..MaxSnaps : SnapPop(i)

SpecSeq == InitSeq /\ [][NextSeq]_vars

---------------------------------------------------------------------------
(* Properties of clone_seq, checked under SpecSeq.                         *)

ListMutations == {"list_append", "list_pop", "list_set"}
SnapMutations == {"snap_push", "snap_pop"}

\* What clone_seq returned: the contents the List or Tuple has at the call, as
\* the sequence the program now holds last; any other variant is fatal.
C12_Snapshot ==
    last.op = "clone_seq" =>
        CASE last.arg.tag = "List" ->
                /\ last.res.ok
                /\ snaps # <<>>
                /\ snaps[Len(snaps)] = last.res.seq
                /\ SnapElems(last.res.seq) = lists[last.arg.ref]
          [] last.arg.tag = "Tuple" ->
                /\ last.res.ok
                /\ SnapElems(last.res.seq) = last.arg.elems
          [] OTHER -> IsFatal(last.res)

\* A mutation of a List changes no returned sequence; a change of a returned
\* sequence changes no List and no other returned sequence; a call adds a
\* sequence and changes neither the Lists nor the sequences returned before.
C12_Independent ==
    /\ last'.op \in ListMutations =>
          /\ Len(snaps') = Len(snaps)
          /\ \A i \in DOMAIN snaps : SnapElems(snaps[i])' = SnapElems(snaps[i])
    /\ last'.op \in SnapMutations =>
          /\ lists' = lists
          /\ \A i \in DOMAIN snaps \ {last'.idx} :
                SnapElems(snaps[i])' = SnapElems(snaps[i])
    /\ last'.op = "clone_seq" =>
          /\ lists' = lists
          /\ \A i \in DOMAIN snaps : SnapElems(snaps[i])' = SnapElems(snaps[i])

\* C12: clone_seq on a List returns a snapshot of the contents current at the
\* call; later in-place mutations of the List through any alias leave returned
\* snapshots unchanged, changing a snapshot leaves the List unchanged, a second
\* call after a mutation returns the mutated contents; on a variant other than
\* List and Tuple the call is a fatal error.
C12_CloneSeq ==
    []C12_Snapshot /\ [][C12_Independent]_vars

\* Two snapshots of one List, taken before and after an element was appended
\* through the alias y; the first is still empty, the second holds the element.
C12_Witness ==
    /\ last.op = "clone_seq"
    /\ last.arg = List(1)
    /\ env["y"] = List(1)
    /\ Len(snaps) = 2
    /\ SnapElems(snaps[1]) = <<>>
    /\ SnapElems(snaps[2]) = lists[1]
    /\ lists[1] # <<>>

---------------------------------------------------------------------------
(* Properties of contained_in and not_contained_in, checked under SpecOps. *)

\* The elements of the iterable now: a List's cell, a Tuple's own sequence.
Contents(iterable) ==
    IF iterable.tag = "List" THEN lists[iterable.ref] ELSE iterable.elems

\* x is in the iterable: x is s cut at both ends, or equals an element.
IsIn(x, iterable) ==
    IF iterable.tag = "Str"
    THEN \E i, j \in 0..Len(iterable.s) :
            /\ i <= j
            /\ x.s = [k \in 1..(j - i) |-> iterable.s[i + k]]
    ELSE \E k \in DOMAIN Contents(iterable) :
            ValueEq(Contents(iterable)[k], x) = RetBool(TRUE)

\* The pairs for which the test is a fatal error.
NotTestable(x, iterable) ==
    \/ iterable.tag \notin {"List", "Tuple", "Str"}
    \/ iterable.tag = "Str" /\ x.tag # "Str"

---------------------------------------------------------------------------
(* A Class with a List-valued and an Object-valued member.  The List's     *)
(* cell is at address 1 of `lists`, the member Object's table at address 2 *)
(* of `tbls`; the Class's table is at address 1 as before.                 *)

MemberNames == {"items", "inner"}
MemberTbls ==
    <<Insert(Insert(BaseTbl, "items", List(1)), "inner", Object(2)),
      EmptyTbl>>

\* x = TheClass.call([], {}), at most MaxObjs times
Instantiate(x) ==
    /\ Running
    /\ Len(tbls) < Len(MemberTbls) + MaxObjs
    /\ LET r == Call(TheClass, <<>>, EmptyTbl, tbls) IN
         /\ tbls' = r.heap
         /\ env' = [env EXCEPT ![x] = r.res.v]
         /\ last' = [op |-> "call", callee |-> TheClass, args |-> <<>>,
                     kwargs |-> EmptyTbl, res |-> r.res, calls |-> r.calls,
                     born |-> r.born, allocated |-> DOMAIN tbls]
    /\ aliasOf' = Unalias(x)
    /\ UNCHANGED <<lists, classes, opnd, snaps>>

\* x.get_attr("items") of an instance, then the List's append
MemberAppend(x, e) ==
    /\ Running
    /\ env[x].tag = "Object"
    /\ LET r == GetAttr(env[x], "items") IN
         /\ IsVal(r)
         /\ r.v.tag = "List"
         /\ Len(lists[r.v.ref]) < MaxLen
         /\ lists' = [lists EXCEPT ![r.v.ref] = Append(@, e)]
    /\ last' = [op |-> "member_append", var |-> x, e |-> e, res |-> RetVal(None)]
    /\ UNCHANGED <<env, tbls, classes, aliasOf, opnd, snaps>>

\* x.get_attr("inner") of an instance, then HashMap::insert on its table
MemberSetAttr(x, v) ==
    /\ Running
    /\ env[x].tag = "Object"
    /\ LET r == GetAttr(env[x], "inner") IN
         /\ IsVal(r)
         /\ r.v.tag = "Object"
         /\ tbls' = [tbls EXCEPT ![r.v.tbl] = Insert(@, "x", v)]
    /\ last' = [op |-> "member_set", var |-> x, v |-> v, res |-> RetVal(None)]
    /\ UNCHANGED <<env, lists, classes, aliasOf, opnd, snaps>>

InitMembers ==
    /\ env = [v \in Vars |-> None]
    /\ lists = <<(<<>>)>>
    /\ tbls = MemberTbls
    /\ classes = <<MemberTbls[1]>>
    /\ aliasOf = {}
    /\ opnd = <<None, None>>
    /\ snaps = <<>>
    /\ last = [op |-> "init", res |-> RetVal(None)]

NextMembers ==
    \/ \E x \in Vars : Instantiate(x)
    \/ \E x \in Vars, e \in Elems : MemberAppend(x, e)
    \/ \E x \in Vars, v \in Elems : MemberSetAttr(x, v)
    \/ \E x \in Vars, v \in Elems : SetAttr(x, "x", v)
    \/ \E v \in {env[x] : x \in Vars} \cup {TheClass}, attr \in MemberNames \cup {"x"} :
          ReadAttr(v, attr)

SpecMembers == InitMembers /\ [][NextMembers]_vars

---------------------------------------------------------------------------
(* Properties of the members' sharing, checked under SpecMembers.          *)

\* The Class and the instances the program holds.
MemberHolders == {TheClass} \cup {env[z] : z \in {w \in Vars : env[w].tag = "Object"}}

\* What get_attr on h shows of the List member and of the Object member.
SeesItems(h, q) ==
    LET r == GetAttr(h, "items") IN
    /\ IsVal(r)
    /\ r.v.tag = "List"
    /\ lists[r.v.ref] = q

SeesInner(h, t) ==
    LET r == GetAttr(h, "inner") IN
    /\ IsVal(r)
    /\ r.v.tag = "Object"
    /\ tbls[r.v.tbl] = t

\* C14: an instance has a mapping of its own, yet its List-valued and
\* Object-valued members are the Class's: what get_attr shows of them through
\* the Class and through every instance, created before or after, is the same
\* state, and holds what was last appended or set through any one instance.
C14_MembersShared ==
    /\ \A h \in MemberHolders :
          /\ h.tag = "Object" => h.tbl \notin {1, 2}
          /\ SeesItems(h, lists[1])
          /\ SeesInner(h, tbls[2])
    /\ \A x, y \in Vars :
          (env[x].tag = "Object" /\ env[y].tag = "Object" /\ x # y)
             => env[x].tbl # env[y].tbl
    /\ last.op = "member_append" =>
          \A h \in MemberHolders :
             \E q \in SeqsUpTo(Elems, MaxLen) : SeesItems(h, Append(q, last.e))
    /\ last.op = "member_set" =>
          \A h \in MemberHolders : SeesInner(h, [n \in {"x"} |-> last.v])
    /\ (last.op = "get_attr" /\ last.attr \in MemberNames /\ last.arg \in MemberHolders)
          => last.res = RetVal(classes[1][last.attr])

\* Two instances with mappings that differ; the List was appended to before the
\* second was created, and the read through the second returned the List.
C14_Witness ==
    /\ last.op = "get_attr"
    /\ last.attr = "items"
    /\ last.arg = env["y"]
    /\ env["x"].tag = "Object"
    /\ env["y"].tag = "Object"
    /\ env["x"].tbl < env["y"].tbl
    /\ tbls[env["x"].tbl] # tbls[env["y"].tbl]
    /\ lists[1] # <<>>
    /\ "x" \in DOMAIN tbls[2]
    /\ last.res = RetVal(List(1))

====
